---------------------------- MODULE Spec2Model ----------------------------
(***************************************************************************)
(* A model of statio/core.py: running (windowed) statistics over a list   *)
(* of numbers.  Every public function of core.py is an operator of the    *)
(* same name that computes the function's outcome (the value returned or  *)
(* the exception raised) the way the code computes it, loop iteration by  *)
(* loop iteration; the state machine is a caller that picks a function    *)
(* and its arguments, calls it, and looks at the outcome.                 *)
(*                                                                         *)
(* Numbers are exact rationals (a Python int is a rational of denominator  *)
(* 1), so the arithmetic is the arithmetic of the code without rounding.   *)
(***************************************************************************)
EXTENDS Integers, Sequences, FiniteSets

VARIABLES
    pc,         \* "idle": no call in progress; "done": a call has ended
    op,         \* name of the function that was called
    arg_values, \* argument values: None or a list of numbers
    arg_period, \* argument period: None or a number
    arg_num,    \* argument num (top_values, bottom_values), else None
    arg_smoothing, \* argument smoothing (ema_values), else None
    result      \* outcome of the call: a value returned or an exception

vars == <<pc, op, arg_values, arg_period, arg_num, arg_smoothing, result>>

---------------------------------------------------------------------------
(* Bounds of the model. *)

\* longest input list
MaxLen == 3

\* largest observation; the smallest is MinVal
MaxVal == 1

MinVal == 0 - 1

\* periods run from MinPeriod to MaxPeriod (one more than the longest list)
MinPeriod == 0 - 2

MaxPeriod == MaxLen + 1

\* largest num of top_values / bottom_values
MaxNum == 3

---------------------------------------------------------------------------
(* Python values: None, numbers and lists. *)

None == [t |-> "None"]

Abs(a) == IF a < 0 THEN 0 - a ELSE a

RECURSIVE GCD(_, _)
GCD(a, b) == IF b = 0 THEN a ELSE GCD(b, a % b)

\* the number n/d (d # 0) in lowest terms with a positive denominator
Rat(n, d) ==
    LET g == GCD(Abs(n), Abs(d))
        s == IF d < 0 THEN 0 - 1 ELSE 1
    IN  [t |-> "num", n |-> (s * n) \div g, d |-> Abs(d) \div g]

Num(k) == [t |-> "num", n |-> k, d |-> 1]

List(s) == [t |-> "list", items |-> s]

IsNum(x) == x.t = "num"

IsList(x) == x.t = "list"

IsInt(x) == IsNum(x) /\ x.d = 1

RAdd(x, y) == Rat(x.n * y.d + y.n * x.d, x.d * y.d)

RSub(x, y) == Rat(x.n * y.d - y.n * x.d, x.d * y.d)

RMul(x, y) == Rat(x.n * y.n, x.d * y.d)

\* x / y for y # 0 (the callers raise ZeroDivisionError when y = 0)
RDiv(x, y) == Rat(x.n * y.d, x.d * y.n)

RLt(x, y) == x.n * y.d < y.n * x.d

RLe(x, y) == x.n * y.d <= y.n * x.d

\* Python truth value of None or a number: None and 0 are false
Truthy(x) == x # None /\ x.n # 0

\* int(x): truncation toward zero
PyInt(x) ==
    IF x.n >= 0 THEN Num(x.n \div x.d) ELSE Num(0 - ((0 - x.n) \div x.d))

\* values[i] with a 0-based index i >= 0
At(items, i) == items[i + 1]

\* outcomes of a call
Return(v) == [kind |-> "return", value |-> v]

Raise(e) == [kind |-> "raise", exc |-> e]

---------------------------------------------------------------------------
(* The prologue shared by all functions:                                   *)
(*     if period:                                                          *)
(*         if period < 1: raise ValueError(...)                            *)
(*         period = int(period)                                            *)

\* a faulty PeriodRaises: 0 is checked like any other number
PeriodRaises_zero(period) == period # None /\ RLt(period, Num(1))

\* TRUE when the prologue raises ValueError
PeriodRaises(period) == Truthy(period) /\ RLt(period, Num(1))

\* period after the prologue
PeriodInt(period) == IF Truthy(period) THEN PyInt(period) ELSE period

\* a faulty WarmUp: "period is None" in place of "not period"
WarmUp_none(period, bar) == period = None \/ bar < period.n

\* the loop's test "(not period) or (bar < period)": the warm-up phase
WarmUp(period, bar) == (~Truthy(period)) \/ bar < period.n

---------------------------------------------------------------------------
(* sum_values *)

\* a faulty sum_values_step: the value subtracted is one place too late
sum_values_step_late(items, period, bar, lastval) ==
    LET newx == At(items, bar)
    IN  IF lastval = None THEN newx
        ELSE IF WarmUp(period, bar) THEN RAdd(lastval, newx)
        ELSE LET oldx == At(items, bar - period.n + 1)
             IN  RAdd(lastval, RSub(newx, oldx))

\* one iteration of the loop: the new lastval
sum_values_step(items, period, bar, lastval) ==
    LET newx == At(items, bar)
    IN  IF lastval = None THEN newx
        ELSE IF WarmUp(period, bar) THEN RAdd(lastval, newx)
        ELSE LET oldx == At(items, bar - period.n)
             IN  RAdd(lastval, RSub(newx, oldx))

\* the loop state after k iterations
RECURSIVE sum_values_loop(_, _, _)
sum_values_loop(items, period, k) ==
    IF k = 0 THEN [lastval |-> None, results |-> <<>>]
    ELSE LET s == sum_values_loop(items, period, k - 1)
             lv == sum_values_step(items, period, k - 1, s.lastval)
         IN  [lastval |-> lv, results |-> Append(s.results, lv)]

sum_values(values, period) ==
    IF PeriodRaises(period) THEN Raise("ValueError")
    ELSE IF ~IsList(values) THEN Raise("TypeError")
    ELSE Return(List(sum_values_loop(values.items, PeriodInt(period),
                                     Len(values.items)).results))

---------------------------------------------------------------------------
(* The prologue of the _value functions:                                   *)
(*     if not values: return None                                          *)
(*     beg = 0                                                             *)
(*     if period: ... beg = maxbar - int(period); if beg < 0: beg = 0      *)

\* a faulty NoValues: "values is None" in place of "not values"
NoValues_none(values) == values = None

\* "not values": None and the empty list are false
NoValues(values) == values = None \/ values.items = <<>>

\* a faulty Beg: the start index is not clamped to 0
Beg_unclamped(maxbar, period) ==
    IF Truthy(period) THEN maxbar - PyInt(period).n ELSE 0

\* first index of the trailing slice values[beg:]
Beg(maxbar, period) ==
    IF Truthy(period)
    THEN LET beg == maxbar - PyInt(period).n
         IN  IF beg < 0 THEN 0 ELSE beg
    ELSE 0

\* the slice items[start:], where a negative start counts from the end and
\* a start outside the list is clamped
PySliceFrom(items, start) ==
    LET len == Len(items)
        s == IF start < 0
             THEN (IF len + start < 0 THEN 0 ELSE len + start)
             ELSE (IF start > len THEN len ELSE start)
    IN  SubSeq(items, s + 1, len)

\* the slice items[0:stop], clamped the same way
PySliceTo(items, stop) ==
    LET len == Len(items)
        e == IF stop < 0
             THEN (IF len + stop < 0 THEN 0 ELSE len + stop)
             ELSE (IF stop > len THEN len ELSE stop)
    IN  SubSeq(items, 1, e)

\* the builtin sum(...) of a list of numbers
RECURSIVE PySum(_)
PySum(items) ==
    IF items = <<>> THEN Num(0)
    ELSE RAdd(PySum(SubSeq(items, 1, Len(items) - 1)), items[Len(items)])

\* a faulty sum_value: the period is checked before the input
sum_value_checkfirst(values, period) ==
    IF PeriodRaises(period) THEN Raise("ValueError")
    ELSE IF NoValues(values) THEN Return(None)
    ELSE Return(PySum(PySliceFrom(values.items,
                                  Beg(Len(values.items), period))))

sum_value(values, period) ==
    IF NoValues(values) THEN Return(None)
    ELSE IF PeriodRaises(period) THEN Raise("ValueError")
    ELSE Return(PySum(PySliceFrom(values.items,
                                  Beg(Len(values.items), period))))

---------------------------------------------------------------------------
(* sma_values, sma_value *)

\* a faulty sma_values_step: the steady-state update keeps the warm-up
\* formula
sma_values_step_cumulative(items, period, period_n, bar, lastval) ==
    LET newx == At(items, bar)
    IN  IF lastval = None THEN newx
        ELSE RAdd(lastval, RDiv(RSub(newx, lastval), Num(bar + 1)))

\* one iteration; period_n is float(period), period is int(period)
sma_values_step(items, period, period_n, bar, lastval) ==
    LET newx == At(items, bar)
    IN  IF lastval = None THEN newx
        ELSE IF WarmUp(period, bar)
        THEN RAdd(lastval, RDiv(RSub(newx, lastval), Num(bar + 1)))
        ELSE RAdd(lastval,
                  RDiv(RSub(newx, At(items, bar - period.n)), period_n))

RECURSIVE sma_values_loop(_, _, _, _)
sma_values_loop(items, period, period_n, k) ==
    IF k = 0 THEN [lastval |-> None, results |-> <<>>]
    ELSE LET s == sma_values_loop(items, period, period_n, k - 1)
             lv == sma_values_step(items, period, period_n, k - 1, s.lastval)
         IN  [lastval |-> lv, results |-> Append(s.results, lv)]

sma_values(values, period) ==
    IF PeriodRaises(period) THEN Raise("ValueError")
    ELSE IF ~IsList(values) THEN Raise("TypeError")
    ELSE Return(List(sma_values_loop(values.items, PeriodInt(period), period,
                                     Len(values.items)).results))

sma_value(values, period) ==
    IF NoValues(values) THEN Return(None)
    ELSE IF PeriodRaises(period) THEN Raise("ValueError")
    ELSE LET tail == PySliceFrom(values.items, Beg(Len(values.items), period))
         IN  Return(RDiv(PySum(tail), Num(Len(tail))))

---------------------------------------------------------------------------
(* ema_values *)

\* TRUE when the smoothing check raises ValueError; it is made only when
\* period is true
SmoothingRaises(period, smoothing) ==
    /\ Truthy(period)
    /\ smoothing # None
    /\ (RLt(smoothing, Num(0)) \/ RLt(Num(1), smoothing))

\* a faulty SmoothingUsed: the default is 2.0 / period
SmoothingUsed_noplus(period, smoothing) ==
    IF Truthy(period) /\ smoothing = None
    THEN RDiv(Num(2), period)
    ELSE smoothing

\* smoothing after the prologue: the default is 2.0 / (period + 1.0)
SmoothingUsed(period, smoothing) ==
    IF Truthy(period) /\ smoothing = None
    THEN RDiv(Num(2), RAdd(period, Num(1)))
    ELSE smoothing

\* a faulty ema_values_step: the warm-up update divides by bar in place of
\* bar + 1
ema_values_step_bar(items, period, smoothing, bar, lastval) ==
    LET newx == At(items, bar)
    IN  IF lastval = None THEN newx
        ELSE IF WarmUp(period, bar)
        THEN RAdd(lastval, RDiv(RSub(newx, lastval), Num(bar)))
        ELSE RAdd(lastval, RMul(smoothing, RSub(newx, lastval)))

ema_values_step(items, period, smoothing, bar, lastval) ==
    LET newx == At(items, bar)
    IN  IF lastval = None THEN newx
        ELSE IF WarmUp(period, bar)
        THEN RAdd(lastval, RDiv(RSub(newx, lastval), Num(bar + 1)))
        ELSE RAdd(lastval, RMul(smoothing, RSub(newx, lastval)))

RECURSIVE ema_values_loop(_, _, _, _)
ema_values_loop(items, period, smoothing, k) ==
    IF k = 0 THEN [lastval |-> None, results |-> <<>>]
    ELSE LET s == ema_values_loop(items, period, smoothing, k - 1)
             lv == ema_values_step(items, period, smoothing, k - 1, s.lastval)
         IN  [lastval |-> lv, results |-> Append(s.results, lv)]

ema_values(values, period, smoothing) ==
    IF PeriodRaises(period) THEN Raise("ValueError")
    ELSE IF SmoothingRaises(period, smoothing) THEN Raise("ValueError")
    ELSE IF ~IsList(values) THEN Raise("TypeError")
    ELSE Return(List(ema_values_loop(values.items, PeriodInt(period),
                                     SmoothingUsed(period, smoothing),
                                     Len(values.items)).results))

---------------------------------------------------------------------------
(* wwma_values *)

\* a faulty wwma_values_step: the steady-state update weighs lastval by
\* period in place of period - 1
wwma_values_step_heavy(items, period, bar, lastval) ==
    LET newx == At(items, bar)
    IN  IF lastval = None THEN newx
        ELSE IF WarmUp(period, bar)
        THEN RAdd(lastval, RDiv(RSub(newx, lastval), Num(bar + 1)))
        ELSE RDiv(RAdd(newx, RMul(lastval, period)), period)

wwma_values_step(items, period, bar, lastval) ==
    LET newx == At(items, bar)
    IN  IF lastval = None THEN newx
        ELSE IF WarmUp(period, bar)
        THEN RAdd(lastval, RDiv(RSub(newx, lastval), Num(bar + 1)))
        ELSE RDiv(RAdd(newx, RMul(lastval, RSub(period, Num(1)))), period)

RECURSIVE wwma_values_loop(_, _, _)
wwma_values_loop(items, period, k) ==
    IF k = 0 THEN [lastval |-> None, results |-> <<>>]
    ELSE LET s == wwma_values_loop(items, period, k - 1)
             lv == wwma_values_step(items, period, k - 1, s.lastval)
         IN  [lastval |-> lv, results |-> Append(s.results, lv)]

wwma_values(values, period) ==
    IF PeriodRaises(period) THEN Raise("ValueError")
    ELSE IF ~IsList(values) THEN Raise("TypeError")
    ELSE Return(List(wwma_values_loop(values.items, PeriodInt(period),
                                      Len(values.items)).results))

---------------------------------------------------------------------------
(* psa_values *)

\* a faulty psa_values_step: the steady-state update keeps the warm-up
\* formula
psa_values_step_cumulative(items, period, period_n, bar, lastval) ==
    LET newx == At(items, bar)
    IN  IF lastval = None THEN RDiv(RMul(newx, newx), Num(bar + 1))
        ELSE RAdd(lastval,
                  RDiv(RSub(RMul(newx, newx), lastval), Num(bar + 1)))

psa_values_step(items, period, period_n, bar, lastval) ==
    LET newx == At(items, bar)
    IN  IF lastval = None THEN RDiv(RMul(newx, newx), Num(bar + 1))
        ELSE IF WarmUp(period, bar)
        THEN RAdd(lastval,
                  RDiv(RSub(RMul(newx, newx), lastval), Num(bar + 1)))
        ELSE LET oldx == At(items, bar - period.n)
             IN  RAdd(lastval,
                      RDiv(RSub(RMul(newx, newx), RMul(oldx, oldx)),
                           period_n))

RECURSIVE psa_values_loop(_, _, _, _)
psa_values_loop(items, period, period_n, k) ==
    IF k = 0 THEN [lastval |-> None, results |-> <<>>]
    ELSE LET s == psa_values_loop(items, period, period_n, k - 1)
             lv == psa_values_step(items, period, period_n, k - 1, s.lastval)
         IN  [lastval |-> lv, results |-> Append(s.results, lv)]

psa_values(values, period) ==
    IF PeriodRaises(period) THEN Raise("ValueError")
    ELSE IF ~IsList(values) THEN Raise("TypeError")
    ELSE Return(List(psa_values_loop(values.items, PeriodInt(period), period,
                                     Len(values.items)).results))

---------------------------------------------------------------------------
(* _varbases: running variances from the running sma and psa *)

\* a faulty varbases_n: the sample adjustment is left out
varbases_n_size(period, bar, population) ==
    IF WarmUp(period, bar) THEN Num(bar + 1) ELSE period

\* the divisor n = size - sample_adjust of one iteration (bar >= 1);
\* period is int(period), so period_n = float(period) is the same number
varbases_n(period, bar, population) ==
    LET sample_adjust == IF population THEN Num(0) ELSE Num(1)
        size == IF WarmUp(period, bar) THEN Num(bar + 1) ELSE period
    IN  RSub(size, sample_adjust)

\* a faulty varbases_step: the two terms of the difference are swapped
varbases_step_swapped(sma_x, psa_x, period, bar, population) ==
    LET size == IF WarmUp(period, bar) THEN Num(bar + 1) ELSE period
    IN  RDiv(RSub(RMul(RMul(size, sma_x), sma_x), RMul(psa_x, size)),
             varbases_n(period, bar, population))

\* lastval = (psa_x * size - size * sma_x * sma_x) / n, for n # 0
varbases_step(sma_x, psa_x, period, bar, population) ==
    LET size == IF WarmUp(period, bar) THEN Num(bar + 1) ELSE period
    IN  RDiv(RSub(RMul(psa_x, size), RMul(RMul(size, sma_x), sma_x)),
             varbases_n(period, bar, population))

\* the loop state after k iterations; exc names the exception that ended
\* the loop, "none" while there is none
RECURSIVE varbases_loop(_, _, _, _, _)
varbases_loop(smas, psas, period, population, k) ==
    IF k = 0 THEN [lastval |-> None, results |-> <<>>, exc |-> "none"]
    ELSE LET s == varbases_loop(smas, psas, period, population, k - 1)
             bar == k - 1
         IN  IF s.exc # "none" THEN s
             ELSE IF s.lastval = None
             THEN [lastval |-> Num(0), results |-> Append(s.results, Num(0)),
                   exc |-> "none"]
             ELSE IF varbases_n(period, bar, population) = Num(0)
             THEN [s EXCEPT !.exc = "ZeroDivisionError"]
             ELSE LET lv == varbases_step(smas[k], psas[k], period, bar,
                                          population)
                  IN  [lastval |-> lv, results |-> Append(s.results, lv),
                       exc |-> "none"]

varbases(values, period, population) ==
    IF PeriodRaises(period) THEN Raise("ValueError")
    ELSE LET p == PeriodInt(period)
             smas == sma_values(values, p)
             psas == psa_values(values, p)
         IN  IF smas.kind = "raise" THEN smas
             ELSE IF psas.kind = "raise" THEN psas
             ELSE LET s == varbases_loop(smas.value.items, psas.value.items,
                                         p, population, Len(smas.value.items))
                  IN  IF s.exc # "none" THEN Raise(s.exc)
                      ELSE Return(List(s.results))

---------------------------------------------------------------------------
(* _varbase: the final variance, by a one-pass mean / squared deviations *)

\* the loop "for x in values[beg:]" after k iterations
RECURSIVE varbase_loop(_, _)
varbase_loop(tail, k) ==
    IF k = 0 THEN [n |-> 0, mean |-> Num(0), meandiffs |-> Num(0)]
    ELSE LET s == varbase_loop(tail, k - 1)
             x == tail[k]
             n == s.n + 1
             delta == RSub(x, s.mean)
             mean == RAdd(s.mean, RDiv(delta, Num(n)))
         IN  [n |-> n, mean |-> mean,
              meandiffs |-> RAdd(s.meandiffs, RMul(delta, RSub(x, mean)))]

varbase(values, period, population) ==
    IF NoValues(values) THEN Return(None)
    ELSE IF PeriodRaises(period) THEN Raise("ValueError")
    ELSE LET tail == PySliceFrom(values.items, Beg(Len(values.items), period))
             itemcnt == Len(tail)
             sample_adjust == IF population THEN Num(0) ELSE Num(1)
         IN  IF itemcnt < 2 THEN Return(Num(0))
             ELSE Return(RDiv(varbase_loop(tail, itemcnt).meandiffs,
                              RSub(Num(itemcnt), sample_adjust)))

varp_values(values, period) == varbases(values, period, TRUE)

varp_value(values, period) == varbase(values, period, TRUE)

var_values(values, period) == varbases(values, period, FALSE)

var_value(values, period) == varbase(values, period, FALSE)

---------------------------------------------------------------------------
(* Standard deviations: math.sqrt of the variances *)

\* the natural number whose square is m, or -1 when m is no square
IntRoot(m) ==
    IF \E r \in 0..m : r * r = m THEN CHOOSE r \in 0..m : r * r = m
    ELSE 0 - 1

\* math.sqrt(x) for x >= 0, exactly: a rational when x is the square of
\* one, otherwise the irrational number whose square is x
PySqrt(x) ==
    IF IntRoot(x.n) >= 0 /\ IntRoot(x.d) >= 0
    THEN Rat(IntRoot(x.n), IntRoot(x.d))
    ELSE [t |-> "surd", sq |-> x]

\* [_sqrt(x) for x in results]; math.sqrt raises ValueError on x < 0
sqrt_all(outcome) ==
    IF outcome.kind = "raise" THEN outcome
    ELSE LET xs == outcome.value.items
         IN  IF \E i \in 1..Len(xs) : RLt(xs[i], Num(0))
             THEN Raise("ValueError")
             ELSE Return(List([i \in 1..Len(xs) |-> PySqrt(xs[i])]))

\* if result: result = math.sqrt(result)
sqrt_if(outcome) ==
    IF outcome.kind = "raise" THEN outcome
    ELSE IF ~Truthy(outcome.value) THEN outcome
    ELSE IF RLt(outcome.value, Num(0)) THEN Raise("ValueError")
    ELSE Return(PySqrt(outcome.value))

stdp_values(values, period) == sqrt_all(varbases(values, period, TRUE))

stdp_value(values, period) == sqrt_if(varbase(values, period, TRUE))

std_values(values, period) == sqrt_all(varbases(values, period, FALSE))

std_value(values, period) == sqrt_if(varbase(values, period, FALSE))

---------------------------------------------------------------------------
(* The sorted window of max_values, top_values, min_values, bottom_values  *)

\* bisect.bisect_left(a, x): binary search between lo and hi for the
\* leftmost place where x can be inserted
RECURSIVE bisect_left(_, _, _, _)
bisect_left(a, x, lo, hi) ==
    IF lo < hi
    THEN LET mid == (lo + hi) \div 2
         IN  IF RLt(At(a, mid), x) THEN bisect_left(a, x, mid + 1, hi)
             ELSE bisect_left(a, x, lo, mid)
    ELSE lo

\* the binary search of bisect.insort: the place after every entry <= x
RECURSIVE bisect_right(_, _, _, _)
bisect_right(a, x, lo, hi) ==
    IF lo < hi
    THEN LET mid == (lo + hi) \div 2
         IN  IF RLt(x, At(a, mid)) THEN bisect_right(a, x, lo, mid)
             ELSE bisect_right(a, x, mid + 1, hi)
    ELSE lo

\* a faulty search: bisect (bisect_right) in place of bisect_left
search_right(recs, item) == bisect_right(recs, item, 0, Len(recs))

\* a faulty search: the place of the rightmost entry <= item
search_last(recs, item) == bisect_right(recs, item, 0, Len(recs)) - 1

\* _search(recs, item)
search(recs, item) == bisect_left(recs, item, 0, Len(recs))

\* del recs[idx], for 0 <= idx < len(recs)
DelAt(recs, idx) == SubSeq(recs, 1, idx) \o SubSeq(recs, idx + 2, Len(recs))

\* a faulty additem: recs.append(newx) in place of bisect.insort
additem_append(recs, newx) == Append(recs, newx)

\* _additem(recs, newx)
additem(recs, newx) ==
    LET idx == bisect_right(recs, newx, 0, Len(recs))
    IN  SubSeq(recs, 1, idx) \o <<newx>> \o SubSeq(recs, idx + 1, Len(recs))

\* "if period and (bar >= period)": the value at bar - period leaves
Evicts(period, bar) == Truthy(period) /\ bar >= period.n

\* recs after one iteration: evict, then insert; exc is "IndexError" when
\* del recs[idx] is out of range
window_step(items, period, bar, recs) ==
    LET idx == search(recs, At(items, bar - period.n))
    IN  IF Evicts(period, bar) /\ idx >= Len(recs)
        THEN [recs |-> recs, exc |-> "IndexError"]
        ELSE [recs |-> additem(IF Evicts(period, bar) THEN DelAt(recs, idx)
                                ELSE recs,
                               At(items, bar)),
              exc |-> "none"]

\* the loop state after k iterations: recs, and trace, the value of recs
\* at the end of each iteration so far
RECURSIVE window_loop(_, _, _)
window_loop(items, period, k) ==
    IF k = 0 THEN [recs |-> <<>>, trace |-> <<>>, exc |-> "none"]
    ELSE LET s == window_loop(items, period, k - 1)
             w == window_step(items, period, k - 1, s.recs)
         IN  IF s.exc # "none" THEN s
             ELSE IF w.exc # "none" THEN [s EXCEPT !.exc = w.exc]
             ELSE [recs |-> w.recs, trace |-> Append(s.trace, w.recs),
                   exc |-> "none"]

\* The same loop with every entry of recs labelled with the iteration that
\* inserted it: entries are [v |-> value, at |-> bar].  The searches see
\* the values only, as in the code.
ValuesOf(trecs) == [i \in 1..Len(trecs) |-> trecs[i].v]

\* the labelled recs after one iteration: evict, then insert
tagged_step(items, period, bar, trecs) ==
    LET idx == search(ValuesOf(trecs), At(items, bar - period.n))
        kept == IF Evicts(period, bar) /\ idx >= 0 /\ idx < Len(trecs)
                THEN DelAt(trecs, idx) ELSE trecs
        ins == bisect_right(ValuesOf(kept), At(items, bar), 0, Len(kept))
    IN  SubSeq(kept, 1, ins) \o <<[v |-> At(items, bar), at |-> bar]>>
            \o SubSeq(kept, ins + 1, Len(kept))

\* the labelled recs after k iterations
RECURSIVE tagged_loop(_, _, _)
tagged_loop(items, period, k) ==
    IF k = 0 THEN <<>>
    ELSE tagged_step(items, period, k - 1, tagged_loop(items, period, k - 1))

\* lastval = recs[-1]
max_lastval(recs, bar) == recs[Len(recs)]

\* lastval = recs[0]
min_lastval(recs, bar) == recs[1]

\* a faulty begidx: bar in place of bar + 1
begidx_bar(num, bar) == IF bar < num - 1 THEN bar ELSE num

\* begidx / endidx of top_values and bottom_values
begidx(num, bar) == IF bar < num - 1 THEN bar + 1 ELSE num

\* a faulty top_lastval: the slice of bottom_values
top_lastval_front(recs, num, bar) == List(PySliceTo(recs, begidx(num, bar)))

\* lastval = recs[-begidx:]
top_lastval(recs, num, bar) == List(PySliceFrom(recs, 0 - begidx(num, bar)))

\* lastval = recs[0:endidx]
bottom_lastval(recs, num, bar) == List(PySliceTo(recs, begidx(num, bar)))

\* "if num: num = int(num)"
NumInt(num) == IF Truthy(num) THEN PyInt(num) ELSE num

max_values(values, period) ==
    IF PeriodRaises(period) THEN Raise("ValueError")
    ELSE IF ~IsList(values) THEN Raise("TypeError")
    ELSE LET s == window_loop(values.items, PeriodInt(period),
                              Len(values.items))
         IN  IF s.exc # "none" THEN Raise(s.exc)
             ELSE Return(List([i \in 1..Len(s.trace) |->
                                  max_lastval(s.trace[i], i - 1)]))

min_values(values, period) ==
    IF PeriodRaises(period) THEN Raise("ValueError")
    ELSE IF ~IsList(values) THEN Raise("TypeError")
    ELSE LET s == window_loop(values.items, PeriodInt(period),
                              Len(values.items))
         IN  IF s.exc # "none" THEN Raise(s.exc)
             ELSE Return(List([i \in 1..Len(s.trace) |->
                                  min_lastval(s.trace[i], i - 1)]))

top_values(values, period, num) ==
    IF PeriodRaises(period) THEN Raise("ValueError")
    ELSE IF ~IsList(values) THEN Raise("TypeError")
    ELSE IF values.items # <<>> /\ num = None THEN Raise("TypeError")
    ELSE LET s == window_loop(values.items, PeriodInt(period),
                              Len(values.items))
         IN  IF s.exc # "none" THEN Raise(s.exc)
             ELSE Return(List([i \in 1..Len(s.trace) |->
                            top_lastval(s.trace[i], NumInt(num).n, i - 1)]))

bottom_values(values, period, num) ==
    IF PeriodRaises(period) THEN Raise("ValueError")
    ELSE IF ~IsList(values) THEN Raise("TypeError")
    ELSE IF values.items # <<>> /\ num = None THEN Raise("TypeError")
    ELSE LET s == window_loop(values.items, PeriodInt(period),
                              Len(values.items))
         IN  IF s.exc # "none" THEN Raise(s.exc)
             ELSE Return(List([i \in 1..Len(s.trace) |->
                            bottom_lastval(s.trace[i], NumInt(num).n, i - 1)]))

---------------------------------------------------------------------------
(* The caller. *)

Seqs(S, n) == UNION {[1..k -> S] : k \in 0..n}

Vals == {Num(k) : k \in MinVal..MaxVal}

Lists == {List(s) : s \in Seqs(Vals, MaxLen)}

\* the values argument: a list, or None
Inputs == Lists \cup {None}

\* periods that are no integers: 1/2, 3/2, ...
FracPeriods == {Rat(2 * k + 1, 2) : k \in 0..(MaxLen - 1)}

\* the period argument: None (the default), an integer or another number
Periods ==
    {None} \cup {Num(k) : k \in MinPeriod..MaxPeriod} \cup FracPeriods

\* the num argument: None or an integer (the default is 1)
Nums == {None} \cup {Num(k) : k \in 0..MaxNum}

\* the smoothing argument: None (the default) or a number, in or out of
\* the range 0 to 1
Smoothings ==
    {None, Rat(0 - 1, 2), Num(0), Rat(1, 2), Num(1), Rat(3, 2)}

\* the outcome of calling the function called name
Apply(name, values, period, num, smoothing) ==
    CASE name = "ema_values" -> ema_values(values, period, smoothing)
      [] name = "top_values" -> top_values(values, period, num)
      [] name = "bottom_values" -> bottom_values(values, period, num)
      [] name = "sum_values" -> sum_values(values, period)
      [] name = "sum_value" -> sum_value(values, period)
      [] name = "sma_values" -> sma_values(values, period)
      [] name = "sma_value" -> sma_value(values, period)
      [] name = "wwma_values" -> wwma_values(values, period)
      [] name = "psa_values" -> psa_values(values, period)
      [] name = "varp_values" -> varp_values(values, period)
      [] name = "varp_value" -> varp_value(values, period)
      [] name = "var_values" -> var_values(values, period)
      [] name = "var_value" -> var_value(values, period)
      [] name = "stdp_values" -> stdp_values(values, period)
      [] name = "stdp_value" -> stdp_value(values, period)
      [] name = "std_values" -> std_values(values, period)
      [] name = "std_value" -> std_value(values, period)
      [] name = "max_values" -> max_values(values, period)
      [] name = "min_values" -> min_values(values, period)

Init ==
    /\ pc = "idle"
    /\ op = "none"
    /\ arg_values = None
    /\ arg_period = None
    /\ arg_num = None
    /\ arg_smoothing = None
    /\ result = None

\* a call of the function called name with these arguments, to its end,
\* where it returns or raises: outcome
Call(name, values, period, num, smoothing, outcome) ==
    /\ pc = "idle"
    /\ pc' = "done"
    /\ op' = name
    /\ arg_values' = values
    /\ arg_period' = period
    /\ arg_num' = num
    /\ arg_smoothing' = smoothing
    /\ result' = outcome

Call_sum_values ==
    /\ pc = "idle"
    /\ \E v \in Inputs, p \in Periods :
        Call("sum_values", v, p, None, None, sum_values(v, p))

Call_sum_value ==
    /\ pc = "idle"
    /\ \E v \in Inputs, p \in Periods :
        Call("sum_value", v, p, None, None, sum_value(v, p))

Call_sma_values ==
    /\ pc = "idle"
    /\ \E v \in Inputs, p \in Periods :
        Call("sma_values", v, p, None, None, sma_values(v, p))

Call_sma_value ==
    /\ pc = "idle"
    /\ \E v \in Inputs, p \in Periods :
        Call("sma_value", v, p, None, None, sma_value(v, p))

Call_wwma_values ==
    /\ pc = "idle"
    /\ \E v \in Inputs, p \in Periods :
        Call("wwma_values", v, p, None, None, wwma_values(v, p))

Call_psa_values ==
    /\ pc = "idle"
    /\ \E v \in Inputs, p \in Periods :
        Call("psa_values", v, p, None, None, psa_values(v, p))

Call_varp_values ==
    /\ pc = "idle"
    /\ \E v \in Inputs, p \in Periods :
        Call("varp_values", v, p, None, None, varp_values(v, p))

Call_varp_value ==
    /\ pc = "idle"
    /\ \E v \in Inputs, p \in Periods :
        Call("varp_value", v, p, None, None, varp_value(v, p))

Call_var_values ==
    /\ pc = "idle"
    /\ \E v \in Inputs, p \in Periods :
        Call("var_values", v, p, None, None, var_values(v, p))

Call_var_value ==
    /\ pc = "idle"
    /\ \E v \in Inputs, p \in Periods :
        Call("var_value", v, p, None, None, var_value(v, p))

Call_stdp_values ==
    /\ pc = "idle"
    /\ \E v \in Inputs, p \in Periods :
        Call("stdp_values", v, p, None, None, stdp_values(v, p))

Call_stdp_value ==
    /\ pc = "idle"
    /\ \E v \in Inputs, p \in Periods :
        Call("stdp_value", v, p, None, None, stdp_value(v, p))

Call_std_values ==
    /\ pc = "idle"
    /\ \E v \in Inputs, p \in Periods :
        Call("std_values", v, p, None, None, std_values(v, p))

Call_std_value ==
    /\ pc = "idle"
    /\ \E v \in Inputs, p \in Periods :
        Call("std_value", v, p, None, None, std_value(v, p))

Call_max_values ==
    /\ pc = "idle"
    /\ \E v \in Inputs, p \in Periods :
        Call("max_values", v, p, None, None, max_values(v, p))

Call_min_values ==
    /\ pc = "idle"
    /\ \E v \in Inputs, p \in Periods :
        Call("min_values", v, p, None, None, min_values(v, p))

Call_ema_values ==
    /\ pc = "idle"
    /\ \E v \in Inputs, p \in Periods, s \in Smoothings :
        Call("ema_values", v, p, None, s, ema_values(v, p, s))

Call_top_values ==
    /\ pc = "idle"
    /\ \E v \in Inputs, p \in Periods, n \in Nums :
        Call("top_values", v, p, n, None, top_values(v, p, n))

Call_bottom_values ==
    /\ pc = "idle"
    /\ \E v \in Inputs, p \in Periods, n \in Nums :
        Call("bottom_values", v, p, n, None, bottom_values(v, p, n))

\* the call is over; nothing is kept from one call to the next
Finish ==
    /\ pc = "done"
    /\ pc' = "idle"
    /\ op' = "none"
    /\ arg_values' = None
    /\ arg_period' = None
    /\ arg_num' = None
    /\ arg_smoothing' = None
    /\ result' = None

Next ==
    \/ Call_sum_values
    \/ Call_sum_value
    \/ Call_sma_values
    \/ Call_sma_value
    \/ Call_wwma_values
    \/ Call_psa_values
    \/ Call_varp_values
    \/ Call_varp_value
    \/ Call_var_values
    \/ Call_var_value
    \/ Call_stdp_values
    \/ Call_stdp_value
    \/ Call_std_values
    \/ Call_std_value
    \/ Call_max_values
    \/ Call_min_values
    \/ Call_ema_values
    \/ Call_top_values
    \/ Call_bottom_values
    \/ Finish

Spec == Init /\ [][Next]_vars

---------------------------------------------------------------------------
(* What the properties below are stated with.  None of it is taken from   *)
(* the functions above: the trailing window and its sum, mean, extremes    *)
(* and order are defined directly.                                         *)

Done(name) == pc = "done" /\ op = name

Returned == result.kind = "return"

Raised(e) == result.kind = "raise" /\ result.exc = e

ValuesOps ==
    {"sum_values", "sma_values", "ema_values", "wwma_values", "psa_values",
     "varp_values", "var_values", "stdp_values", "std_values", "max_values",
     "min_values", "top_values", "bottom_values"}

ValueOps ==
    {"sum_value", "sma_value", "varp_value", "var_value", "stdp_value",
     "std_value"}

\* a valid period: None or an integer >= 1
ValidPeriod(p) == p = None \/ (IsInt(p) /\ p.n >= 1)

NegativePeriod(p) == p # None /\ p.n < 0

\* a num of at least 1, for the functions that take one
ValidNum ==
    op \in {"top_values", "bottom_values"}
        => (arg_num # None /\ arg_num.n >= 1)

\* a smoothing that is absent or within 0 to 1
ValidSmoothing ==
    arg_smoothing = None
        \/ (RLe(Num(0), arg_smoothing) /\ RLe(arg_smoothing, Num(1)))

Min2(a, b) == IF a < b THEN a ELSE b

\* number of observations in the trailing window at 0-based index i
WindowLen(i, p) == IF Truthy(p) THEN Min2(i + 1, p.n) ELSE i + 1

\* the trailing window values[max(0, i-p+1) .. i]; all of values[0 .. i]
\* when there is no period
Window(items, i, p) == SubSeq(items, i + 2 - WindowLen(i, p), i + 1)

RECURSIVE SeqSum(_)
SeqSum(s) == IF s = <<>> THEN Num(0) ELSE RAdd(Head(s), SeqSum(Tail(s)))

Mean(s) == RDiv(SeqSum(s), Num(Len(s)))

IsMaxOf(x, s) ==
    (\E i \in 1..Len(s) : s[i] = x) /\ (\A i \in 1..Len(s) : RLe(s[i], x))

IsMinOf(x, s) ==
    (\E i \in 1..Len(s) : s[i] = x) /\ (\A i \in 1..Len(s) : RLe(x, s[i]))

Ascending(s) == \A i \in 1..Len(s) : \A j \in i..Len(s) : RLe(s[i], s[j])

Count(s, x) == Cardinality({i \in 1..Len(s) : s[i] = x})

Elems(s) == {s[i] : i \in 1..Len(s)}

\* r holds k values of w (as a multiset) and what is left of w is nowhere
\* larger than a value of r: r is the k largest values of w
IsLargest(r, w, k) ==
    /\ Len(r) = k
    /\ \A x \in Elems(r) : Count(r, x) <= Count(w, x)
    /\ \A x \in Elems(w) : Count(r, x) < Count(w, x) =>
           \A y \in Elems(r) : RLe(x, y)

IsSmallest(r, w, k) ==
    /\ Len(r) = k
    /\ \A x \in Elems(r) : Count(r, x) <= Count(w, x)
    /\ \A x \in Elems(w) : Count(r, x) < Count(w, x) =>
           \A y \in Elems(r) : RLe(y, x)

\* the sorted container at the end of iteration bar
RecsAt(items, p, bar) == window_loop(items, PeriodInt(p), bar + 1).recs

\* the 0-based indices of a list
Bars(items) == 0..(Len(items) - 1)

---------------------------------------------------------------------------
(* C1.  Every _values function, called with a list and a valid period     *)
(* (None or an integer >= 1), returns, and returns a list as long as the   *)
(* input.  Stated as claimed.                                              *)
C1_LengthPreserved ==
    (pc = "done" /\ op \in ValuesOps /\ IsList(arg_values)
        /\ ValidPeriod(arg_period) /\ ValidNum /\ ValidSmoothing)
    => (Returned /\ Len(result.value.items) = Len(arg_values.items))

---------------------------------------------------------------------------
(* C2.  sum_values(v, p)[i] is the sum of the trailing window of v at i,   *)
(* for every list v, index i and valid period p (all of v[0..i] when p is  *)
(* None).                                                                  *)
C2_SumIsWindowSum ==
    (Done("sum_values") /\ IsList(arg_values) /\ ValidPeriod(arg_period))
    => /\ Returned
       /\ Len(result.value.items) = Len(arg_values.items)
       /\ \A i \in Bars(arg_values.items) :
              At(result.value.items, i)
                  = SeqSum(Window(arg_values.items, i, arg_period))

\* a call where a nonzero observation has left the window
C2_Witness ==
    /\ Done("sum_values") /\ IsList(arg_values) /\ Returned
    /\ arg_period = Num(2)
    /\ Len(arg_values.items) = 3
    /\ arg_values.items[1] # Num(0)

---------------------------------------------------------------------------
(* C3.  sma_values(v, p)[i] is, exactly, the arithmetic mean of the        *)
(* trailing window of v at i, for every list v, index i and valid period.  *)
C3_SmaIsWindowMean ==
    (Done("sma_values") /\ IsList(arg_values) /\ ValidPeriod(arg_period))
    => /\ Returned
       /\ Len(result.value.items) = Len(arg_values.items)
       /\ \A i \in Bars(arg_values.items) :
              At(result.value.items, i)
                  = Mean(Window(arg_values.items, i, arg_period))

\* a call that went through warm-up and then a steady-state update whose
\* result is no integer
C3_Witness ==
    /\ Done("sma_values") /\ IsList(arg_values) /\ Returned
    /\ arg_period = Num(2)
    /\ Len(arg_values.items) = 3
    /\ ~IsInt(result.value.items[3])
    /\ arg_values.items[1] # arg_values.items[3]

---------------------------------------------------------------------------
(* C4.  max_values(v, p)[i] is the maximum and min_values(v, p)[i] the     *)
(* minimum of the trailing window of v at i, duplicates allowed.           *)
C4_MaxMinOfWindow ==
    (pc = "done" /\ op \in {"max_values", "min_values"}
        /\ IsList(arg_values) /\ ValidPeriod(arg_period))
    => /\ Returned
       /\ Len(result.value.items) = Len(arg_values.items)
       /\ \A i \in Bars(arg_values.items) :
              LET w == Window(arg_values.items, i, arg_period)
                  x == At(result.value.items, i)
              IN  IF op = "max_values" THEN IsMaxOf(x, w) ELSE IsMinOf(x, w)

\* a call where the window's maximum left while an equal value stayed
C4_Witness ==
    /\ Done("max_values") /\ IsList(arg_values) /\ Returned
    /\ arg_period = Num(2)
    /\ arg_values.items = <<Num(1), Num(1), Num(0)>>

---------------------------------------------------------------------------
(* C5.  For num >= 1, top_values(v, p, num)[i] is the ascending list of    *)
(* the min(num, window_len) largest values of the trailing window and      *)
(* bottom_values(v, p, num)[i] that of the smallest, window_len being      *)
(* min(i+1, p), or i+1 when p is None.                                     *)
C5_TopBottomOfWindow ==
    (pc = "done" /\ op \in {"top_values", "bottom_values"}
        /\ IsList(arg_values) /\ ValidPeriod(arg_period) /\ ValidNum)
    => /\ Returned
       /\ Len(result.value.items) = Len(arg_values.items)
       /\ \A i \in Bars(arg_values.items) :
              LET w == Window(arg_values.items, i, arg_period)
                  k == Min2(arg_num.n, WindowLen(i, arg_period))
                  r == At(result.value.items, i).items
              IN  /\ Ascending(r)
                  /\ IF op = "top_values" THEN IsLargest(r, w, k)
                     ELSE IsSmallest(r, w, k)

\* a call with a period smaller than num and a duplicate in the window
C5_Witness ==
    /\ Done("top_values") /\ IsList(arg_values) /\ Returned
    /\ arg_period = Num(2) /\ arg_num = Num(3)
    /\ arg_values.items = <<Num(0), Num(1), Num(1)>>

---------------------------------------------------------------------------
(* C6, as claimed.  At every step bar of top_values and bottom_values,     *)
(* for every valid period and every num >= 1, the list returned for the    *)
(* step has exactly min(num, bar+1) elements.                              *)
C6_Original ==
    (pc = "done" /\ op \in {"top_values", "bottom_values"}
        /\ IsList(arg_values) /\ ValidPeriod(arg_period) /\ ValidNum)
    => /\ Returned
       /\ \A bar \in Bars(arg_values.items) :
              Len(At(result.value.items, bar).items)
                  = Min2(arg_num.n, bar + 1)

(* C6, amended.  The list returned for step bar has exactly                *)
(* min(num, bar+1, period) elements (min(num, bar+1) when there is no      *)
(* period): for top_values they are the last that many elements of the     *)
(* sorted container, for bottom_values the first that many.                *)
C6_Amended ==
    (pc = "done" /\ op \in {"top_values", "bottom_values"}
        /\ IsList(arg_values) /\ ValidPeriod(arg_period) /\ ValidNum)
    => /\ Returned
       /\ \A bar \in Bars(arg_values.items) :
              LET recs == RecsAt(arg_values.items, arg_period, bar)
                  k == Min2(arg_num.n, WindowLen(bar, arg_period))
                  r == At(result.value.items, bar).items
              IN  /\ Len(r) = k
                  /\ Len(recs) >= k
                  /\ r = IF op = "top_values"
                         THEN SubSeq(recs, Len(recs) - k + 1, Len(recs))
                         ELSE SubSeq(recs, 1, k)

\* a call with a period smaller than num, past the first period steps
C6_Witness ==
    /\ Done("bottom_values") /\ IsList(arg_values) /\ Returned
    /\ arg_period = Num(1) /\ arg_num = Num(2)
    /\ Len(arg_values.items) = 3

---------------------------------------------------------------------------
(* C7, as claimed.  With a negative period every windowed function, the    *)
(* _values and the _value ones, raises ValueError for every input list,    *)
(* the empty one included.                                                 *)
C7_Original ==
    (pc = "done" /\ IsList(arg_values) /\ NegativePeriod(arg_period))
    => Raised("ValueError")

(* C7, amended.  With a negative period every _values function raises     *)
(* ValueError for every input list, the empty one included, and every      *)
(* _value function raises ValueError for every non-empty input list; on    *)
(* the empty list a _value function returns None.                          *)
C7_Amended ==
    (pc = "done" /\ IsList(arg_values) /\ NegativePeriod(arg_period))
    => IF op \in ValueOps /\ arg_values.items = <<>>
       THEN result = Return(None)
       ELSE Raised("ValueError")

\* a _value function called with a negative period and the empty list
C7_Witness ==
    /\ pc = "done" /\ op \in ValueOps
    /\ arg_values = List(<<>>)
    /\ NegativePeriod(arg_period)

---------------------------------------------------------------------------
(* C8, as claimed.  With period = 0 every windowed function raises         *)
(* ValueError.                                                             *)
C8_Original ==
    (pc = "done" /\ IsList(arg_values) /\ arg_period = Num(0))
    => Raised("ValueError")

(* C8, amended.  With period = 0 no windowed function raises ValueError:   *)
(* a period of 0 is not checked, and the call returns for every input      *)
(* list (and every num >= 1).                                              *)
C8_Amended ==
    (pc = "done" /\ IsList(arg_values) /\ arg_period = Num(0) /\ ValidNum)
    => Returned

\* sum_values or sum_value called with period = 0 on two observations
C8_Witness ==
    /\ pc = "done" /\ op \in {"sum_values", "sum_value"}
    /\ arg_period = Num(0)
    /\ IsList(arg_values) /\ Len(arg_values.items) = 2

---------------------------------------------------------------------------
(* C9.  A period of 0 is an unbounded window: every function, on every     *)
(* input, gives with period 0 the outcome it gives with period None.       *)
C9_ZeroIsUnbounded ==
    (pc = "done" /\ arg_period = Num(0))
    => result = Apply(op, arg_values, None, arg_num, arg_smoothing)

\* a call with period 0 on a list of two or more observations that returned
C9_Witness ==
    /\ pc = "done" /\ arg_period = Num(0)
    /\ IsList(arg_values) /\ Len(arg_values.items) = 3
    /\ Returned
    /\ op \in {"sma_values", "max_values", "var_value"}

---------------------------------------------------------------------------
(* C10, as claimed.  ema_values raises ValueError for every smoothing      *)
(* below 0 or above 1, whatever the period (an integer >= 1, None or 0)    *)
(* and the input list; smoothing 0 and 1 are accepted.                     *)
C10_SmoothingChecked ==
    (Done("ema_values") /\ IsList(arg_values) /\ arg_smoothing # None
        /\ (ValidPeriod(arg_period) \/ arg_period = Num(0)))
    => IF RLt(arg_smoothing, Num(0)) \/ RLt(Num(1), arg_smoothing)
       THEN Raised("ValueError")
       ELSE Returned

---------------------------------------------------------------------------
(* C11, as claimed.  A period given as a number p >= 1 is truncated to an  *)
(* integer before it is used: every _values function gives with p the      *)
(* outcome it gives with trunc(p).                                         *)
C11_PeriodTruncated ==
    (pc = "done" /\ op \in ValuesOps /\ IsList(arg_values)
        /\ arg_period # None /\ RLe(Num(1), arg_period))
    => result = Apply(op, arg_values, PyInt(arg_period), arg_num,
                      arg_smoothing)

---------------------------------------------------------------------------
(* C12.  At every step i whose window size n (min(i+1, period), or i+1     *)
(* when period is None) is greater than 1, var_values(v, period)[i] times  *)
(* n - 1 equals varp_values(v, period)[i] times n.                         *)
C12_SampleVsPopulation ==
    (Done("var_values") /\ IsList(arg_values) /\ ValidPeriod(arg_period))
    => \A i \in Bars(arg_values.items) :
           LET n == WindowLen(i, arg_period)
               varp == varp_values(arg_values, arg_period)
           IN  n > 1 =>
                   /\ Returned
                   /\ varp.kind = "return"
                   /\ RMul(At(result.value.items, i), Num(n - 1))
                          = RMul(At(varp.value.items, i), Num(n))

\* a call whose last step is a steady-state step of nonzero variance
C12_Witness ==
    /\ Done("var_values") /\ IsList(arg_values) /\ Returned
    /\ arg_period = Num(2)
    /\ Len(arg_values.items) = 3
    /\ arg_values.items[2] # arg_values.items[3]

---------------------------------------------------------------------------
(* C13.  varp_values(v, period)[i] is, exactly, the population variance    *)
(* of the trailing window of v at i: the mean of the squared deviations    *)
(* from the window's mean.  The first element of varp_values and of        *)
(* var_values is 0.                                                        *)
SquaredDeviations(w) ==
    [j \in 1..Len(w) |-> RMul(RSub(w[j], Mean(w)), RSub(w[j], Mean(w)))]

PopulationVariance(w) == Mean(SquaredDeviations(w))

C13_VarpIsWindowVariance ==
    /\ (Done("varp_values") /\ IsList(arg_values) /\ ValidPeriod(arg_period))
       => /\ Returned
          /\ Len(result.value.items) = Len(arg_values.items)
          /\ \A i \in Bars(arg_values.items) :
                 At(result.value.items, i)
                     = PopulationVariance(Window(arg_values.items, i,
                                                 arg_period))
    /\ (pc = "done" /\ op \in {"varp_values", "var_values"}
           /\ IsList(arg_values) /\ ValidPeriod(arg_period)
           /\ Returned /\ arg_values.items # <<>>)
       => At(result.value.items, 0) = Num(0)

\* a call whose last step is a steady-state step of nonzero variance
C13_Witness ==
    /\ Done("varp_values") /\ IsList(arg_values) /\ Returned
    /\ arg_period = Num(2)
    /\ Len(arg_values.items) = 3
    /\ result.value.items[3] # Num(0)
    /\ arg_values.items[1] # arg_values.items[3]

---------------------------------------------------------------------------
(* C14.  Every _value function returns None, and raises nothing, when the  *)
(* input is the empty list or None, whatever the period.                   *)
C14_NoValuesGivesNone ==
    (pc = "done" /\ op \in ValueOps
        /\ (arg_values = None \/ arg_values = List(<<>>)))
    => result = Return(None)

\* a _value function called with the empty list and a period below 1
C14_Witness ==
    /\ pc = "done" /\ op \in {"sma_value", "std_value"}
    /\ arg_values = List(<<>>)
    /\ arg_period = Rat(1, 2)

---------------------------------------------------------------------------
(* C15.  In max_values, min_values, top_values and bottom_values, after    *)
(* the evict-then-insert of every step bar the container recs is sorted    *)
(* ascending and holds, as a multiset, exactly the trailing window; its    *)
(* length is min(bar+1, period); the index the search returns points at    *)
(* an entry equal to the evicted value; without a period the container     *)
(* grows by one entry per step.                                            *)
WindowOps == {"max_values", "min_values", "top_values", "bottom_values"}

\* the container before iteration bar
RecsBefore(items, p, bar) ==
    IF bar = 0 THEN <<>> ELSE RecsAt(items, p, bar - 1)

C15_SortedWindow ==
    (pc = "done" /\ op \in WindowOps /\ IsList(arg_values)
        /\ ValidPeriod(arg_period))
    => \A bar \in Bars(arg_values.items) :
           LET recs == RecsAt(arg_values.items, arg_period, bar)
               prev == RecsBefore(arg_values.items, arg_period, bar)
               w == Window(arg_values.items, bar, arg_period)
               item == At(arg_values.items, bar - arg_period.n)
           IN  /\ Ascending(recs)
               /\ \A x \in Elems(recs) \cup Elems(w) :
                      Count(recs, x) = Count(w, x)
               /\ Len(recs) = WindowLen(bar, arg_period)
               /\ Evicts(arg_period, bar) =>
                      /\ search(prev, item) < Len(prev)
                      /\ At(prev, search(prev, item)) = item
               /\ arg_period = None => Len(recs) = Len(prev) + 1

\* a call that evicts a value that is not the smallest of the container
C15_Witness ==
    /\ pc = "done" /\ op \in WindowOps /\ IsList(arg_values) /\ Returned
    /\ arg_period = Num(2)
    /\ Len(arg_values.items) = 3
    /\ RLt(arg_values.items[2], arg_values.items[1])

---------------------------------------------------------------------------
(* C16.  Entries of equal value sit in the container in arrival order,     *)
(* and the entry deleted at step bar is the one that was inserted at step  *)
(* bar - period: among several entries equal to the evicted value the      *)
(* oldest is removed.                                                      *)
TaggedAt(items, p, bar) == tagged_loop(items, PeriodInt(p), bar + 1)

TaggedBefore(items, p, bar) ==
    IF bar = 0 THEN <<>> ELSE TaggedAt(items, p, bar - 1)

C16_OldestEqualEvicted ==
    (pc = "done" /\ op \in WindowOps /\ IsList(arg_values)
        /\ ValidPeriod(arg_period))
    => \A bar \in Bars(arg_values.items) :
           LET trecs == TaggedAt(arg_values.items, arg_period, bar)
               prev == TaggedBefore(arg_values.items, arg_period, bar)
               item == At(arg_values.items, bar - arg_period.n)
               idx == search(ValuesOf(prev), item)
           IN  /\ ValuesOf(trecs)
                      = RecsAt(arg_values.items, arg_period, bar)
               /\ \A i \in 1..Len(trecs) : \A j \in (i + 1)..Len(trecs) :
                      trecs[i].v = trecs[j].v => trecs[i].at < trecs[j].at
               /\ Evicts(arg_period, bar) =>
                      /\ idx >= 0 /\ idx < Len(prev)
                      /\ At(prev, idx).at = bar - arg_period.n

\* a call that evicts a value the container holds twice
C16_Witness ==
    /\ pc = "done" /\ op \in WindowOps /\ IsList(arg_values) /\ Returned
    /\ arg_period = Num(2)
    /\ Len(arg_values.items) = 3
    /\ arg_values.items[1] = arg_values.items[2]

---------------------------------------------------------------------------
(* C17.  During warm-up (no period, or bar < period) the elements of       *)
(* ema_values, wwma_values and sma_values are all the cumulative mean of   *)
(* v[0 .. bar]; ema_values with no period and no smoothing returns what    *)
(* sma_values returns.                                                     *)
MeanOps == {"ema_values", "wwma_values", "sma_values"}

CumulativeMean(items, bar) == Mean(SubSeq(items, 1, bar + 1))

C17_WarmUpMeansCoincide ==
    /\ (pc = "done" /\ op \in MeanOps /\ IsList(arg_values)
           /\ ValidPeriod(arg_period) /\ ValidSmoothing)
       => /\ Returned
          /\ \A bar \in Bars(arg_values.items) :
                 WarmUp(arg_period, bar) =>
                     At(result.value.items, bar)
                         = CumulativeMean(arg_values.items, bar)
    /\ (Done("ema_values") /\ IsList(arg_values) /\ arg_period = None
           /\ arg_smoothing = None)
       => result = sma_values(arg_values, None)

\* ema_values whose three steps are all warm-up steps, on values that
\* move the mean
C17_Witness ==
    /\ Done("ema_values") /\ IsList(arg_values) /\ Returned
    /\ arg_period = Num(3) /\ arg_smoothing = None
    /\ Len(arg_values.items) = 3
    /\ arg_values.items[3] # arg_values.items[1]

---------------------------------------------------------------------------
(* C18, as claimed.  For a non-empty list and a valid period (None or an   *)
(* integer >= 1, 1 included) varp_value returns the last element of        *)
(* varp_values and var_value returns the last element of var_values.       *)
RunningOf(name, values, period) ==
    IF name = "varp_value" THEN varp_values(values, period)
    ELSE var_values(values, period)

C18_ValueIsLastOfValues ==
    (pc = "done" /\ op \in {"varp_value", "var_value"} /\ IsList(arg_values)
        /\ arg_values.items # <<>> /\ ValidPeriod(arg_period))
    => LET running == RunningOf(op, arg_values, arg_period)
       IN  /\ running.kind = "return"
           /\ result
                  = Return(At(running.value.items,
                              Len(arg_values.items) - 1))

---------------------------------------------------------------------------
(* C19.  An integer period at least as large as the input behaves as no    *)
(* period: every _values and every _value function, called with a list v   *)
(* and an integer period p >= len(v), has the outcome it has with period   *)
(* None.  The smoothing of ema_values is absent or within 0 to 1.          *)
C19_LargePeriodIsUnbounded ==
    (pc = "done" /\ op \in ValuesOps \cup ValueOps /\ IsList(arg_values)
        /\ arg_period # None /\ IsInt(arg_period)
        /\ arg_period.n >= Len(arg_values.items) /\ ValidSmoothing)
    => result = Apply(op, arg_values, None, arg_num, arg_smoothing)

\* a _value function called with three values and a period of four
C19_Witness ==
    /\ pc = "done" /\ op \in ValueOps /\ IsList(arg_values) /\ Returned
    /\ Len(arg_values.items) = 3
    /\ arg_period = Num(4)
    /\ arg_values.items[1] # arg_values.items[3]

---------------------------------------------------------------------------
(* C20.  In exact arithmetic every element of varp_values and var_values   *)
(* is >= 0, for every list and every period for which the call returns;    *)
(* so math.sqrt in stdp_values and std_values never gets a negative        *)
(* number: with a period that passes the period check these two raise no   *)
(* ValueError.                                                             *)
C20_VarianceNonNegative ==
    /\ (pc = "done" /\ op \in {"varp_values", "var_values"}
           /\ IsList(arg_values) /\ Returned)
       => \A i \in Bars(arg_values.items) :
              RLe(Num(0), At(result.value.items, i))
    /\ (pc = "done" /\ op \in {"stdp_values", "std_values"}
           /\ IsList(arg_values) /\ ~PeriodRaises(arg_period))
       => ~Raised("ValueError")

\* a running variance that is positive at its last, steady-state, step
C20_Witness ==
    /\ pc = "done" /\ op \in {"varp_values", "var_values"}
    /\ IsList(arg_values) /\ Returned
    /\ arg_period = Rat(5, 2)
    /\ Len(arg_values.items) = 3
    /\ RLt(Num(0), arg_values.items[2])
    /\ RLt(Num(0), result.value.items[3])

---------------------------------------------------------------------------
(* C21, as claimed.  For every integer num >= 0 (0 included), every        *)
(* per-step result of top_values and of bottom_values is an ascending      *)
(* list of at most num values, and the two functions return lists of the   *)
(* same length at every step.                                              *)
OtherOf(name, values, period, num) ==
    IF name = "top_values" THEN bottom_values(values, period, num)
    ELSE top_values(values, period, num)

C21_AtMostNumAscending ==
    (pc = "done" /\ op \in {"top_values", "bottom_values"}
        /\ IsList(arg_values) /\ ValidPeriod(arg_period)
        /\ arg_num # None /\ arg_num.n >= 0)
    => LET other == OtherOf(op, arg_values, arg_period, arg_num)
       IN  /\ Returned
           /\ other.kind = "return"
           /\ \A i \in Bars(arg_values.items) :
                  LET r == At(result.value.items, i).items
                  IN  /\ Ascending(r)
                      /\ Len(r) <= arg_num.n
                      /\ Len(r) = Len(At(other.value.items, i).items)

---------------------------------------------------------------------------
(* C22.  The Wilder average is the exponential average with smoothing      *)
(* 1/period: for every list and every integer period p >= 1,               *)
(* wwma_values(v, p) returns what ema_values(v, p, 1/p) returns, in exact  *)
(* arithmetic.                                                             *)
IntPeriod(p) == p # None /\ IsInt(p) /\ p.n >= 1

C22_WilderIsEma ==
    /\ (Done("wwma_values") /\ IsList(arg_values) /\ IntPeriod(arg_period))
       => /\ Returned
          /\ result = ema_values(arg_values, arg_period,
                                 RDiv(Num(1), arg_period))
    /\ (Done("ema_values") /\ IsList(arg_values) /\ IntPeriod(arg_period)
           /\ arg_smoothing = RDiv(Num(1), arg_period))
       => result = wwma_values(arg_values, arg_period)

\* wwma_values whose last step is a steady-state step that moves the
\* average
C22_Witness ==
    /\ Done("wwma_values") /\ IsList(arg_values) /\ Returned
    /\ arg_period = Num(2)
    /\ Len(arg_values.items) = 3
    /\ result.value.items[3] # result.value.items[2]

---------------------------------------------------------------------------
(* C23.  For every list, every period None or integer >= 1, every          *)
(* smoothing absent or within 0 to 1 and every step i, the element i of    *)
(* sma_values, ema_values and wwma_values lies between the minimum and     *)
(* the maximum of v[0 .. i].                                               *)
InRangeOf(x, s) ==
    /\ \E j \in 1..Len(s) : RLe(s[j], x)
    /\ \E j \in 1..Len(s) : RLe(x, s[j])

C23_MeanWithinRange ==
    (pc = "done" /\ op \in MeanOps /\ IsList(arg_values)
        /\ ValidPeriod(arg_period) /\ ValidSmoothing)
    => /\ Returned
       /\ \A i \in Bars(arg_values.items) :
              InRangeOf(At(result.value.items, i),
                        SubSeq(arg_values.items, 1, i + 1))

\* ema_values with the default smoothing whose last step is a steady-state
\* step ending strictly inside the range of the data
C23_Witness ==
    /\ Done("ema_values") /\ IsList(arg_values) /\ Returned
    /\ arg_period = Num(2) /\ arg_smoothing = None
    /\ Len(arg_values.items) = 3
    /\ \E j \in 1..3 : RLt(arg_values.items[j], result.value.items[3])
    /\ \E j \in 1..3 : RLt(result.value.items[3], arg_values.items[j])

=============================================================================
